---- MODULE Spec2Model ----
(***************************************************************************)
(* A model of the salt monitor daemon: the YAML task parser                *)
(* (salt/ext/monitor/parsers/yaml.py), the task runtime                    *)
(* (salt/ext/monitor/task.py) and the supervisor                           *)
(* (salt/ext/monitor/monitor.py).                                          *)
(*                                                                         *)
(* The parser lowers every catalog entry to python source lines, compiles  *)
(* them, and hands every MonitorTask the parser's one context dict.  Each  *)
(* task runs in its own thread and executes its code in that dict.         *)
(***************************************************************************)
EXTENDS Integers, Sequences, FiniteSets, TLC

\* ------------------------------------------------------------------ bounds

\* Iterations of one task's run loop that are explored.
MaxIter == 2

\* ----------------------------------------------------------- python values

PyInt(n) == [t |-> "int", v |-> <<n>>]
\* a string is the sequence of its character codes
PyStr(s) == [t |-> "str", v |-> s]
PyList(s) == [t |-> "list", v |-> s]
\* a set and a dict keep their elements in their internal (hash) order
PySet(s) == [t |-> "set", v |-> s]
PyDict(s) == [t |-> "dict", v |-> s]
PyNone == [t |-> "none", v |-> <<>>]
\* the value of a name that the context does not bind
Unbound == [t |-> "unbound", v |-> <<>>]

\* isinstance(x, dict): AttrDict is a subclass of dict
IsDict(x) == x.t \in {"dict", "attrdict"}

\* AttrDict(x) for a dict x
AttrDict(x) == [t |-> "attrdict", v |-> x.v]

\* python 2 ordering of the values used as set elements and dict keys:
\* numbers sort before strings, strings lexicographically
RECURSIVE SeqLess(_, _)
SeqLess(a, b) ==
    IF b = <<>> THEN FALSE
    ELSE IF a = <<>> THEN TRUE
    ELSE IF Head(a) # Head(b) THEN Head(a) < Head(b)
    ELSE SeqLess(Tail(a), Tail(b))

PyLess(x, y) ==
    IF x.t = y.t THEN SeqLess(x.v, y.v)
    ELSE x.t = "int"

\* sorted(): insertion sort by the first component of each item
RECURSIVE Insert(_, _)
Insert(x, s) ==
    IF s = <<>> THEN <<x>>
    ELSE IF PyLess(x[1], Head(s)[1]) THEN <<x>> \o s
    ELSE <<Head(s)>> \o Insert(x, Tail(s))

\* C11, mutant: the items are left in the order the dict yields them
Sorted_AsYielded(s) == s

RECURSIVE Sorted(_)
Sorted(s) == IF s = <<>> THEN <<>> ELSE Insert(Head(s), Sorted(Tail(s)))

\* bool(x)
Truthy(x) ==
    CASE x.t = "int" -> x.v[1] # 0
      [] x.t = "none" -> FALSE
      [] OTHER -> x.v # <<>>

Range(s) == {s[i] : i \in DOMAIN s}

\* s.replace(old, new)
RECURSIVE Replace(_, _, _)
Replace(s, old, new) ==
    IF Len(s) < Len(old) THEN s
    ELSE IF SubSeq(s, 1, Len(old)) = old
    THEN new \o Replace(SubSeq(s, Len(old) + 1, Len(s)), old, new)
    ELSE <<Head(s)>> \o Replace(Tail(s), old, new)

\* the characters that reference expansion treats specially
Chr ==
    [quote |-> 39, dquote |-> 34, backslash |-> 92, dollar |-> 36,
     lbrace |-> 123, rbrace |-> 125, soh |-> 1, stx |-> 2]

\* repr(s) of a string: a literal in single quotes, or in double quotes
\* when s has a single quote and no double quote, with the backslash and
\* the delimiter escaped
repr(s) ==
    LET q == IF Chr.quote \in Range(s) /\ Chr.dquote \notin Range(s)
             THEN Chr.dquote ELSE Chr.quote
    IN  <<q>> \o Replace(Replace(s, <<Chr.backslash>>,
                                 <<Chr.backslash, Chr.backslash>>),
                         <<q>>, <<Chr.backslash, q>>) \o <<q>>

\* the string that a string literal of the generated source denotes
RECURSIVE Unescape(_)
Unescape(s) ==
    IF s = <<>> THEN <<>>
    ELSE IF Head(s) = Chr.backslash /\ Len(s) >= 2
    THEN <<s[2]>> \o Unescape(SubSeq(s, 3, Len(s)))
    ELSE <<Head(s)>> \o Unescape(Tail(s))

StringLiteral(src) == Unescape(SubSeq(src, 2, Len(src) - 1))

\* the decimal digits of a natural number
RECURSIVE Digits(_)
Digits(n) ==
    IF n < 10 THEN <<48 + n>> ELSE Digits(n \div 10) \o <<48 + (n % 10)>>

\* ", ".join(strs)
RECURSIVE Join(_)
Join(strs) ==
    IF strs = <<>> THEN <<>>
    ELSE IF Len(strs) = 1 THEN strs[1]
    ELSE strs[1] \o <<44, 32>> \o Join(Tail(strs))

\* repr(x) of a value: 1, 'a', None, [1, 2], set([1, 2]), {'a': 1}
RECURSIVE Repr(_)
Repr(x) ==
    CASE x.t = "int" ->
            IF x.v[1] < 0 THEN <<45>> \o Digits(0 - x.v[1]) ELSE Digits(x.v[1])
      [] x.t = "str" -> repr(x.v)
      [] x.t = "list" ->
            <<91>> \o Join([i \in DOMAIN x.v |-> Repr(x.v[i])]) \o <<93>>
      [] x.t = "set" ->
            <<115, 101, 116, 40, 91>>
                \o Join([i \in DOMAIN x.v |-> Repr(x.v[i])]) \o <<93, 41>>
      [] x.t \in {"dict", "attrdict"} ->
            <<123>> \o Join([i \in DOMAIN x.v |->
                                Repr(x.v[i][1]) \o <<58, 32>> \o Repr(x.v[i][2])])
                   \o <<125>>
      [] OTHER -> <<78, 111, 110, 101>>

\* str(x): a string is itself, any other value its repr
Str(x) == IF x.t = "str" THEN x.v ELSE Repr(x)

\* C19, mutant: the doubled braces of the format string are left doubled
RECURSIVE format_KeepsBraces(_, _)
format_KeepsBraces(fmt, args) ==
    IF fmt = <<>> THEN <<>>
    ELSE IF Len(fmt) >= 2 /\ SubSeq(fmt, 1, 2) = <<Chr.lbrace, Chr.rbrace>>
    THEN Str(Head(args)) \o format_KeepsBraces(SubSeq(fmt, 3, Len(fmt)), Tail(args))
    ELSE <<Head(fmt)>> \o format_KeepsBraces(Tail(fmt), args)

\* fmt.format(*args): {} is replaced by the str of the next argument, {{
\* and }} by a brace
RECURSIVE format(_, _)
format(fmt, args) ==
    IF fmt = <<>> THEN <<>>
    ELSE IF Len(fmt) >= 2 /\ SubSeq(fmt, 1, 2) = <<Chr.lbrace, Chr.lbrace>>
    THEN <<Chr.lbrace>> \o format(SubSeq(fmt, 3, Len(fmt)), args)
    ELSE IF Len(fmt) >= 2 /\ SubSeq(fmt, 1, 2) = <<Chr.rbrace, Chr.rbrace>>
    THEN <<Chr.rbrace>> \o format(SubSeq(fmt, 3, Len(fmt)), args)
    ELSE IF Len(fmt) >= 2 /\ SubSeq(fmt, 1, 2) = <<Chr.lbrace, Chr.rbrace>>
    THEN Str(Head(args)) \o format(SubSeq(fmt, 3, Len(fmt)), Tail(args))
    ELSE <<Head(fmt)>> \o format(Tail(fmt), args)

\* ------------------------------------------------- the catalog (the input)

\* A token of a command line, as TOKEN_PATTERN.split takes it apart:
\* whether it is enclosed in quotes, and its pieces in order, each a stretch
\* of plain text or a reference $name.
Text(s) == [k |-> "text", s |-> s, name |-> ""]
Var(n) == [k |-> "var", s |-> <<>>, name |-> n]
Token(quoted, pieces) == [quoted |-> quoted, pieces |-> pieces]
\* the tokens word, $name and '<pieces>'
Word(s) == Token(FALSE, <<Text(s)>>)
Dollar(n) == Token(FALSE, <<Var(n)>>)
Quoted(pieces) == Token(TRUE, pieces)

\* An argument in the generated source, the python expression that
\* reference expansion makes of a token: a string literal, a name,
\* str(name), '<fmt>'.format(names), or text that is no string.
Lit(s) == [k |-> "lit", s |-> s, name |-> "", refs |-> <<>>]
Ref(n) == [k |-> "ref", s |-> <<>>, name |-> n, refs |-> <<>>]
StrOf(n) == [k |-> "str", s |-> <<>>, name |-> n, refs |-> <<>>]
Formatted(s, refs) == [k |-> "format", s |-> s, name |-> "", refs |-> refs]
Source(s, refs) == [k |-> "source", s |-> s, name |-> "", refs |-> refs]

\* the names of the references among the pieces, in order
RECURSIVE Refs(_)
Refs(pieces) ==
    IF pieces = <<>> THEN <<>>
    ELSE (IF Head(pieces).k = "var" THEN <<Head(pieces).name>> ELSE <<>>)
            \o Refs(Tail(pieces))

\* the format string of the pieces: {} for a reference, and plain text
\* with its escapes \$ and \\ resolved and its braces put aside as \1, \2
RECURSIVE Fmt(_)
Fmt(pieces) ==
    IF pieces = <<>> THEN <<>>
    ELSE (IF Head(pieces).k = "var" THEN <<Chr.lbrace, Chr.rbrace>>
          ELSE Replace(Replace(Replace(Replace(Head(pieces).s,
                    <<Chr.backslash, Chr.dollar>>, <<Chr.dollar>>),
                    <<Chr.backslash, Chr.backslash>>, <<Chr.backslash>>),
                    <<Chr.lbrace>>, <<Chr.soh>>),
                    <<Chr.rbrace>>, <<Chr.stx>>))
            \o Fmt(Tail(pieces))

\* C20, mutant: a reference that is the whole token is converted with str
\* whether quoted or not
Reference_AlwaysStr(quoted, ref) == StrOf(ref)

\* a token that is one reference and nothing else: str(ref) when it was
\* written in quotes, else the name itself
Reference(quoted, ref) == IF quoted THEN StrOf(ref) ELSE Ref(ref)

\* _expand_references: the python expression for a token
_expand_references(text, expand_to_string) ==
    LET quoted == text.quoted
        is_string == quoted \/ expand_to_string
        refs == Refs(text.pieces)
        fmt == Fmt(text.pieces)
        plain == Replace(Replace(fmt, <<Chr.soh>>, <<Chr.lbrace>>),
                         <<Chr.stx>>, <<Chr.rbrace>>)
        doubled == Replace(Replace(fmt, <<Chr.soh>>,
                                   <<Chr.lbrace, Chr.lbrace>>),
                           <<Chr.stx>>, <<Chr.rbrace, Chr.rbrace>>)
    IN  IF fmt = <<Chr.lbrace, Chr.rbrace>> /\ Len(refs) = 1
        THEN Reference(quoted, refs[1])
        ELSE IF Len(refs) = 0
        THEN IF is_string THEN Lit(repr(plain)) ELSE Source(plain, <<>>)
        ELSE IF is_string THEN Formatted(repr(doubled), refs)
             ELSE Source(doubled, refs)

\* A condition: a python expression over the context.
Gt(n, c) == [k |-> "gt", name |-> n, c |-> c]
IsTrue(n) == [k |-> "truthy", name |-> n, c |-> 0]
IsSet(n) == [k |-> "isset", name |-> n, c |-> 0]
IsADict(n) == [k |-> "isdict", name |-> n, c |-> 0]
NotADict(n) == [k |-> "notdict", name |-> n, c |-> 0]
NoCond == [k |-> "none", name |-> "", c |-> 0]

\* A statement of a clause body: a command line (a string), or a
\* single-key mapping kw cond: actions with kw one of if, elif, else, bare
\* (a condition without keyword) and foreach.
Cmd(cmd, args) ==
    [kind |-> "cmd", cmd |-> cmd, args |-> args,
     kw |-> "", cond |-> NoCond, actions |-> <<>>]
Map(kw, cond, actions) ==
    [kind |-> "map", cmd |-> "", args |-> <<>>,
     kw |-> kw, cond |-> cond, actions |-> actions]

\* A top-level control clause of an entry: "foreach <params>:" or
\* "if <cond>:" with its list of statements.
Foreach(params, body) ==
    [kw |-> "foreach", params |-> params, cond |-> NoCond, body |-> body]
If(cond, body) ==
    [kw |-> "if", params |-> <<>>, cond |-> cond, body |-> body]

\* the value of a timing key that the entry does not have, and of one that
\* is no well-formed mapping
Absent == -1
Malformed == -2

\* A catalog entry (taskdict).  id "" stands for an absent id key and
\* has_run FALSE for an absent run key; every is the number of seconds its
\* mapping adds up to and at names a cron mapping; clauses are in the
\* order in which the entry declares them.
Entry(id, has_run, run, every, at, clauses) ==
    [id |-> id, has_run |-> has_run, run |-> run, every |-> every,
     at |-> at, clauses |-> clauses]

\* the host agent's function registry: the command names it holds
functions ==
    {"test.ping", "status.diskusage", "alert.send", "status.meminfo",
     "ps.pgrep", "ps.top"}

\* the strings "/", "a", "b" and "c"
S_root == <<47>>
S_a == <<97>>
S_b == <<98>>
S_c == <<99>>

\* what a command can return (the agent's functions are external)
Returns(cmd) ==
    CASE cmd = "test.ping" -> {PyInt(1)}
      [] cmd = "status.diskusage" ->
            {PyDict(<< <<PyStr(S_b), PyInt(2)>>, <<PyStr(S_a), PyInt(1)>> >>),
             PyInt(0)}
      \* a mapping with a mapping among its values, in hash order
      [] cmd = "status.meminfo" ->
            {PyDict(<< <<PyStr(S_c), PyDict(<< <<PyStr(S_a), PyInt(1)>> >>)>>,
                       <<PyStr(S_a), PyInt(0)>>,
                       <<PyStr(S_b), PyInt(1)>> >>)}
      \* a sequence in an order of its own, or a set in hash order
      [] cmd = "ps.pgrep" ->
            {PyList(<<PyInt(3), PyInt(1), PyInt(2)>>),
             PySet(<<PyInt(3), PyInt(1)>>),
             PyList(<<>>)}
      \* a sequence of mappings
      [] cmd = "ps.top" ->
            {PyList(<<PyDict(<< <<PyStr(S_a), PyInt(1)>> >>)>>)}
      [] OTHER -> {PyNone}

\* ------------------------------------- generated source (python lines)

\* One line of generated python source: its indentation level and what it
\* says.  A line "bad" is text that is no python statement.
Line(op, cmd, args, names, cond, taskid) ==
    [ind |-> 0, op |-> op, cmd |-> cmd, args |-> args, names |-> names,
     cond |-> cond, taskid |-> taskid]
Simple(op) == Line(op, "", <<>>, <<>>, NoCond, "")
Header(op, cond) == Line(op, "", <<>>, <<>>, cond, "")

\* the outcome of a call: the value returned, or the exception raised
Ok(val) == [err |-> "none", val |-> val]
Raise(e) == [err |-> e, val |-> <<>>]
Cat(r1, r2) ==
    IF r1.err # "none" THEN r1
    ELSE IF r2.err # "none" THEN r2
    ELSE Ok(r1.val \o r2.val)

_indent(lines) ==
    [i \in 1..Len(lines) |-> [lines[i] EXCEPT !.ind = @ + 1]]

\* _expand_call: one command line to the call _run(cmd, [args]).
_expand_call(line) ==
    IF line.kind = "map" THEN Raise("ValueError")
    ELSE IF line.cmd = "" THEN Raise("ValueError")
    ELSE IF line.cmd \notin functions THEN Raise("ValueError")
    ELSE Ok(<<Line("call", line.cmd,
                   [i \in DOMAIN line.args |->
                        _expand_references(line.args[i], TRUE)],
                   <<>>, NoCond, "")>>)

RECURSIVE ExpandCalls(_)
ExpandCalls(actions) ==
    IF actions = <<>> THEN Ok(<<>>)
    ELSE LET r == _expand_call(Head(actions)) IN
         Cat(IF r.err = "none" THEN Ok(_indent(r.val)) ELSE r,
             ExpandCalls(Tail(actions)))

\* C13, mutant: every condition opens an if statement of its own
_expand_conditional_AllIf(kw, cond, actions) ==
    LET header ==
            CASE kw \in {"if", "bare", "elif"} -> Header("if", cond)
              [] kw = "else" -> Header("else", NoCond)
              [] OTHER -> Simple("bad")
    IN  Cat(Ok(<<header>>),
            IF actions # <<>> THEN ExpandCalls(actions)
            ELSE Ok(_indent(<<Simple("pass")>>)))

\* _expand_conditional: one if/elif/else mapping to its header line and
\* its indented calls.  A condition that starts with none of if, elif and
\* else gets "if " put before it.
_expand_conditional(kw, cond, actions) ==
    LET header ==
            CASE kw \in {"if", "bare"} -> Header("if", cond)
              [] kw = "elif" -> Header("elif", cond)
              [] kw = "else" -> Header("else", NoCond)
              [] OTHER -> Simple("bad")
    IN  Cat(Ok(<<header>>),
            IF actions # <<>> THEN ExpandCalls(actions)
            ELSE Ok(_indent(<<Simple("pass")>>)))

RECURSIVE ExpandStatements(_)
ExpandStatements(value) ==
    IF value = <<>> THEN Ok(<<>>)
    ELSE LET st == Head(value)
             r == IF st.kind = "cmd" THEN _expand_call(st)
                  ELSE _expand_conditional(st.kw, st.cond, st.actions)
         IN  Cat(IF r.err = "none" THEN Ok(_indent(r.val)) ELSE r,
                 ExpandStatements(Tail(value)))

\* _expand_foreach: "foreach v" over a list or set, "foreach k, v" over a
\* dict; the last parameter is wrapped in an AttrDict when it is a dict.
_expand_foreach(params, value) ==
    LET names == params
        PRIMARY == "result"
        head ==
            IF Len(names) = 0 THEN Raise("ValueError")
            ELSE IF Len(names) = 1 THEN
                Ok(<<Header("if", IsSet(PRIMARY)),
                     [Simple("sorted") EXCEPT !.ind = 1],
                     Line("for1", "", <<>>, names, NoCond, "")>>)
            ELSE IF Len(names) = 2 THEN
                Ok(<<Simple("class_AttrDict"),
                     Header("if", NotADict(PRIMARY)),
                     [Simple("raise") EXCEPT !.ind = 1],
                     Line("wrap", "", <<>>, <<PRIMARY>>, NoCond, ""),
                     Line("for2", "", <<>>, names, NoCond, "")>>)
            ELSE Raise("ValueError")
        vname == names[Len(names)]
        wrap == _indent(<<Header("if", IsADict(vname)),
                          [Line("wrap", "", <<>>, <<vname>>, NoCond, "")
                              EXCEPT !.ind = 1]>>)
    IN  IF head.err # "none" THEN head
        ELSE Cat(head, Cat(Ok(wrap), ExpandStatements(value)))

\* the control clauses of an entry, in the order in which iterating the
\* entry's dict yields their keys
RECURSIVE ExpandClauses(_, _)
ExpandClauses(clauses, order) ==
    IF order = <<>> THEN Ok(<<>>)
    ELSE LET c == clauses[Head(order)]
             r == IF c.kw = "foreach" THEN _expand_foreach(c.params, c.body)
                  ELSE _expand_conditional(c.kw, c.cond, c.body)
         IN  Cat(r, ExpandClauses(clauses, Tail(order)))

\* _expand_task: the python source of one entry.  `order` is the order in
\* which taskdict.iteritems() yields the control clauses.
_expand_task(taskid, taskdict, order) ==
    IF ~taskdict.has_run THEN Raise("KeyError")
    ELSE LET call == _expand_call(taskdict.run) IN
         IF call.err # "none" THEN call
         ELSE Cat(Ok(<<Line("def_run", "", <<>>, <<>>, NoCond, taskid),
                       Simple("reset"),
                       [call.val[1] EXCEPT !.op = "primary"]>>),
                  ExpandClauses(taskdict.clauses, order))

\* ------------------------------------------------ compile(pysrc, 'exec')

\* One instruction of a compiled plan.  A jump, a test whose condition is
\* false and an exhausted loop continue at the instruction `off` places on.
Instr(op, line, off) ==
    [op |-> op, cmd |-> line.cmd, args |-> line.args, names |-> line.names,
     cond |-> line.cond, taskid |-> line.taskid, off |-> off]

SimpleOps ==
    {"def_run", "reset", "primary", "call", "sorted", "class_AttrDict",
     "raise", "wrap", "pass"}

SyntaxError == <<Instr("SyntaxError", Simple("bad"), 0)>>

\* the number of lines at the head of `lines` indented deeper than lvl
RECURSIVE BodyLen(_, _)
BodyLen(lines, lvl) ==
    IF lines = <<>> \/ Head(lines).ind <= lvl THEN 0
    ELSE 1 + BodyLen(Tail(lines), lvl)

\* the number of lines at the head of `lines` that continue an if
\* statement: its elif and else clauses with their bodies
RECURSIVE ChainLen(_, _)
ChainLen(lines, lvl) ==
    IF lines = <<>> \/ Head(lines).ind # lvl
       \/ Head(lines).op \notin {"elif", "else"} THEN 0
    ELSE LET n == 1 + BodyLen(Tail(lines), lvl) IN
         IF Head(lines).op = "else" THEN n
         ELSE n + ChainLen(SubSeq(lines, n + 1, Len(lines)), lvl)

\* the statements of one block at indentation lvl; inchain says that the
\* block continues an if statement
RECURSIVE CompileBlock(_, _, _)
CompileBlock(lines, lvl, inchain) ==
    IF lines = <<>> THEN <<>>
    ELSE
    LET head == Head(lines)
        n == BodyLen(Tail(lines), lvl)
        body == SubSeq(lines, 2, n + 1)
        rest == SubSeq(lines, n + 2, Len(lines))
        cbody == CompileBlock(body, lvl + 1, FALSE)
    IN  IF head.ind # lvl THEN SyntaxError
        ELSE IF head.op \in SimpleOps THEN
            IF body # <<>> THEN SyntaxError
            ELSE <<Instr(head.op, head, 1)>> \o CompileBlock(rest, lvl, FALSE)
        ELSE IF head.op \in {"if", "elif"} THEN
            IF body = <<>> \/ (head.op = "elif" /\ ~inchain) THEN SyntaxError
            ELSE LET c == ChainLen(rest, lvl)
                     cchain == CompileBlock(SubSeq(rest, 1, c), lvl, TRUE)
                 IN  <<Instr("test", head, Len(cbody) + 2)>> \o cbody
                        \o <<Instr("jump", head, Len(cchain) + 1)>> \o cchain
                        \o CompileBlock(SubSeq(rest, c + 1, Len(rest)),
                                        lvl, FALSE)
        ELSE IF head.op = "else" THEN
            IF body = <<>> \/ ~inchain THEN SyntaxError
            ELSE cbody \o CompileBlock(rest, lvl, FALSE)
        ELSE IF head.op \in {"for1", "for2"} THEN
            IF body = <<>> THEN SyntaxError
            ELSE <<Instr(IF head.op = "for1" THEN "iter1" ELSE "iter2",
                         head, 1),
                   Instr("next", head, Len(cbody) + 2)>> \o cbody
                    \o <<Instr("jump", head, 0 - (Len(cbody) + 1))>>
                    \o CompileBlock(rest, lvl, FALSE)
        ELSE SyntaxError

\* compile(pysrc, '<monitor-config>', 'exec')
compile(pysrc) ==
    LET code == CompileBlock(pysrc, 0, FALSE) IN
    IF \E i \in 1..Len(code) : code[i].op = "SyntaxError"
    THEN Raise("SyntaxError")
    ELSE Ok(code)

\* ---------------------------------------------------------------- state

VARIABLES
    source,     \* Parser.source: the catalog, opts['monitor']
    opts,       \* the daemon's configuration, monitor.opts
    tasknum,    \* entries that Parser._expand_tasks has gone through
    results,    \* the MonitorTasks that _expand_tasks has appended
    ignored,    \* the entries that _expand_tasks has logged and dropped
    monitor,    \* the supervisor: "parsing" (in Monitor.__init__), "failed"
                \* (parse raised), "ready" (constructed), "started" and
                \* "no_tasks" (Monitor.start has returned)
    context,    \* the context dicts, by reference
    started,    \* threads that Monitor.start has started
    pc,         \* where each task's thread is in MonitorTask.run
    frame,      \* the frame of each thread: the plan's instruction
                \* pointer, the for loop's iterator, the call in progress
    stats,      \* what each thread has done: plan executions, sink calls,
                \* calls of scheduler.next(), sleeps, its own completed
                \* invocations of this iteration, and what its sink was
                \* last handed
    expansion   \* a call of Parser._expand_references on its own: its
                \* arguments, whether it has returned, and its result

vars == <<source, opts, tasknum, results, ignored, monitor, context,
          started, pc, frame, stats, expansion>>

\* no call of _expand_references on its own
NoExpansion ==
    [text |-> <<>>, expand_to_string |-> FALSE, done |-> TRUE,
     result |-> <<>>]

\* the names a plan binds besides task_results, _run and AttrDict
Names == {"result", "fs", "stats", "v"}

\* The daemon's configuration, as far as the monitor reads it: the names
\* under the keys monitor.returner and monitor.collector ("" for a key that
\* is absent) and the seconds of monitor.default_interval.
Opts(returner_name, collector_name, interval) ==
    [returner |-> returner_name, collector |-> collector_name,
     default_interval |-> interval]

\* loader.collectors(opts): the modules of collectors/ that have a function
\* collector, kept as Monitor.collectors
collectors == {"mongo"}

\* SMinion.returners: the returner functions of the minion
returners == {"redis"}

\* registry.get(name): the function under the name, or None
Get(registry, kind, name) ==
    IF name \in registry THEN kind \o "." \o name ELSE "none"

\* _make_context: the dict every task of a parser runs in.  It has a
\* returner only if monitor.returner is configured; context.get('returner')
\* is None ("none") without the key as with a name the registry lacks.
_make_context(monitor_opts) ==
    [id |-> "minion",
     returner |-> IF monitor_opts.returner # ""
                  THEN Get(returners, "returners", monitor_opts.returner)
                  ELSE "none",
     vars |-> [n \in Names |-> Unbound],
     task_results |-> <<>>, has_task_results |-> FALSE,
     _run |-> 0, has_AttrDict |-> FALSE,
     \* the thread that last bound each name (0: none)
     writer |-> [n \in Names \cup {"task_results"} |-> 0]]

\* the context a task of entry tasknum is given: self.context, the one
\* dict of the parser (reference 0)
TaskContext(n) == 0

DefaultId(n) == "monitor-" \o ToString(n)

NoScheduler == [kind |-> "none", seconds |-> 0, left |-> 0]

\* CronParser.create_scheduler: an iterator of sleep durations that never
\* ends; a malformed mapping raises ValueError
create_scheduler(sleep_type, cron_dict) ==
    IF cron_dict = Malformed THEN Raise("ValueError")
    ELSE [err |-> "none",
          val |-> [kind |-> sleep_type, seconds |-> cron_dict, left |-> -1]]

DEFAULT_INTERVAL_SECONDS == 10

\* Parser.default_interval
default_interval(monitor_opts) ==
    IF monitor_opts.default_interval # Absent
    THEN monitor_opts.default_interval
    ELSE DEFAULT_INTERVAL_SECONDS

\* C17, mutant: the key `at` is not looked at
_expand_scheduler_NoCron(taskdict, interval) ==
    IF taskdict.every # Absent THEN create_scheduler("interval", taskdict.every)
    ELSE create_scheduler("interval", interval)

\* _expand_scheduler
_expand_scheduler(taskdict, interval) ==
    IF taskdict.every # Absent THEN create_scheduler("interval", taskdict.every)
    ELSE IF taskdict.at # Absent THEN create_scheduler("cron", taskdict.at)
    ELSE create_scheduler("interval", interval)

MonitorTask(taskid, pyexe, ctx, scheduler) ==
    [taskid |-> taskid, code |-> pyexe, context |-> ctx,
     scheduler |-> scheduler]

\* the orders in which a dict of n keys can yield them
Orders(n) ==
    {f \in [1..n -> 1..n] : \A i, j \in 1..n : i # j => f[i] # f[j]}

\* the last statement of the try block of _expand_tasks, reached with the
\* outcome of _expand_scheduler: the MonitorTask is made
TryAppend(taskid, pyexe, ctx, scheduler) ==
    IF scheduler.err # "none" THEN scheduler
    ELSE Ok(MonitorTask(taskid, pyexe, ctx, scheduler.val))

\* the try block from the outcome of compile on: the scheduler is made
TryScheduler(taskid, taskdict, interval, ctx, pyexe) ==
    IF pyexe.err # "none" THEN pyexe
    ELSE TryAppend(taskid, pyexe.val, ctx,
                   _expand_scheduler(taskdict, interval))

\* the try block from the outcome of _expand_task on: the source is
\* compiled
TryCompile(taskid, taskdict, interval, ctx, pysrc) ==
    IF pysrc.err # "none" THEN pysrc
    ELSE TryScheduler(taskid, taskdict, interval, ctx, compile(pysrc.val))

\* the try block of the loop of _expand_tasks: the entry's source, plan
\* and scheduler, made into a MonitorTask, or the exception raised
TryEntry(taskid, taskdict, order, interval, ctx) ==
    TryCompile(taskid, taskdict, interval, ctx,
               _expand_task(taskid, taskdict, order))

\* how the loop of _expand_tasks goes on after the try block of entry n:
\* the task is appended, or a ValueError is logged and the entry dropped;
\* any other exception leaves the loop and parse()
AfterTry(n, task) ==
    /\ tasknum' = n
    /\ results' = IF task.err = "none" THEN Append(results, task.val)
                  ELSE results
    /\ ignored' = IF task.err = "ValueError" THEN Append(ignored, n)
                  ELSE ignored
    /\ monitor' = IF task.err \in {"none", "ValueError"}
                  THEN "parsing" ELSE "failed"

\* One round of the loop of _expand_tasks over one entry.
ExpandEntry ==
    /\ monitor = "parsing"
    /\ tasknum < Len(source)
    /\ LET taskdict == source[tasknum + 1]
           taskid == IF taskdict.id # "" THEN taskdict.id
                     ELSE DefaultId(tasknum + 1)
       IN  \E order \in Orders(Len(taskdict.clauses)) :
             AfterTry(tasknum + 1,
                      TryEntry(taskid, taskdict, order,
                               default_interval(opts),
                               TaskContext(tasknum + 1)))
    /\ UNCHANGED <<source, opts, expansion, context, started, pc, frame, stats>>

\* _expand_tasks returns its results to Monitor.__init__
ParseReturn ==
    /\ monitor = "parsing"
    /\ tasknum = Len(source)
    /\ monitor' = "ready"
    /\ UNCHANGED <<source, opts, expansion, tasknum, results, ignored, context,
                   started, pc, frame, stats>>

\* ------------------------------------------------- executing a plan

Cx(t) == context[results[t].context]
Code(t) == results[t].code

\* jumps and pass statements touch nothing: the next instruction that does
RECURSIVE Norm(_, _)
Norm(code, ip) ==
    IF ip > Len(code) THEN ip
    ELSE IF code[ip].op = "jump" THEN Norm(code, ip + code[ip].off)
    ELSE IF code[ip].op = "pass" THEN Norm(code, ip + 1)
    ELSE ip

\* the value of an argument expression in a context; Unbound stands for
\* the NameError of a name the context does not bind
EvalArg(cx, a) ==
    CASE a.k = "lit" -> PyStr(StringLiteral(a.s))
      [] a.k = "ref" -> cx.vars[a.name]
      [] a.k = "str" ->
            IF cx.vars[a.name] = Unbound THEN Unbound
            ELSE PyStr(Str(cx.vars[a.name]))
      [] a.k = "format" ->
            IF \E i \in DOMAIN a.refs : cx.vars[a.refs[i]] = Unbound
            THEN Unbound
            ELSE PyStr(format(StringLiteral(a.s),
                              [i \in DOMAIN a.refs |-> cx.vars[a.refs[i]]]))
      [] OTHER -> Unbound
EvalArgs(cx, args) == [i \in 1..Len(args) |-> EvalArg(cx, args[i])]

\* a condition in a context: "true", "false", or "raise" (a NameError)
EvalCond(cx, c) ==
    LET x == cx.vars[c.name]
        b == CASE c.k = "gt" ->
                    IF x.t = "int" THEN x.v[1] > c.c ELSE x.t # "none"
               [] c.k = "truthy" -> Truthy(x)
               [] c.k = "isset" -> x.t = "set"
               [] c.k = "isdict" -> IsDict(x)
               [] c.k = "notdict" -> ~IsDict(x)
               [] OTHER -> FALSE
    IN  IF x = Unbound THEN "raise" ELSE IF b THEN "true" ELSE "false"

Bind(cx, name, value, t) ==
    [cx EXCEPT !.vars[name] = value, !.writer[name] = t]

\* the items a for loop goes through: iter(x), each item a tuple
Items(x) ==
    CASE x.t \in {"list", "set"} -> [i \in 1..Len(x.v) |-> <<x.v[i]>>]
      [] IsDict(x) -> [i \in 1..Len(x.v) |-> <<x.v[i][1]>>]
      [] x.t = "str" -> [i \in 1..Len(x.v) |-> <<PyStr(<<x.v[i]>>)>>]
      [] OTHER -> <<>>
Iterable(x) == x.t \in {"list", "set", "str"} \/ IsDict(x)

\* sorted(x) of a set
SortedList(x) ==
    LET s == Sorted(Items(x)) IN PyList([i \in 1..Len(s) |-> s[i][1]])

\* The effect of one instruction other than a call, run by thread t with
\* frame fr in context cx: the exception it raises, or the context and
\* frame it leaves.
Effect(ins, cx, fr, t) ==
    LET next == [fr EXCEPT !.ip = fr.ip + 1]
        done(c, f) == [raised |-> FALSE, cx |-> c, fr |-> f]
        raise == [raised |-> TRUE, cx |-> cx, fr |-> fr]
        x == cx.vars[ins.names[1]]
        r == cx.vars["result"]
    IN
    CASE ins.op = "def_run" -> done([cx EXCEPT !._run = t], next)
      [] ins.op = "reset" ->
            done([cx EXCEPT !.task_results = <<>>,
                            !.has_task_results = TRUE,
                            !.writer["task_results"] = t], next)
      [] ins.op = "class_AttrDict" ->
            done([cx EXCEPT !.has_AttrDict = TRUE], next)
      \* raise ValueError('result is not a dict')
      [] ins.op = "raise" -> raise
      [] ins.op = "sorted" ->
            IF Iterable(r) THEN done(Bind(cx, "result", SortedList(r), t), next)
            ELSE raise
      [] ins.op = "wrap" ->
            IF cx.has_AttrDict /\ IsDict(x)
            THEN done(Bind(cx, ins.names[1], AttrDict(x), t), next)
            ELSE raise
      [] ins.op = "test" ->
            LET b == EvalCond(cx, ins.cond) IN
            IF b = "raise" THEN raise
            ELSE IF b = "true" THEN done(cx, next)
            ELSE done(cx, [fr EXCEPT !.ip = fr.ip + ins.off])
      [] ins.op = "iter1" ->
            IF Iterable(r) THEN done(cx, [next EXCEPT !.iter = Items(r)])
            ELSE raise
      [] ins.op = "iter2" ->
            IF IsDict(r) THEN done(cx, [next EXCEPT !.iter = Sorted(r.v)])
            ELSE raise
      [] ins.op = "next" ->
            IF fr.iter = <<>> THEN done(cx, [fr EXCEPT !.ip = fr.ip + ins.off])
            ELSE LET item == Head(fr.iter)
                     f == [next EXCEPT !.iter = Tail(fr.iter)]
                 IN  IF Len(ins.names) = 1
                     THEN done(Bind(cx, ins.names[1], item[1], t), f)
                     ELSE done(Bind(Bind(cx, ins.names[1], item[1], t),
                                    ins.names[2], item[2], t), f)
      [] OTHER -> raise

\* ------------------------------------------------------- Monitor.start

NoCall == [cmd |-> "", args |-> <<>>, primary |-> FALSE]
Frame0 == [ip |-> 0, iter |-> <<>>, call |-> NoCall, returner |-> "none"]
Stats0 ==
    [runs |-> 0, sunk |-> 0, asked |-> 0, slept |-> 0, invoked |-> <<>>,
     handed |-> <<>>, sink_raised |-> FALSE]

\* the one positional argument that run() calls its returner with
ReturnerArgs(minion, task_results) ==
    <<[id |-> minion, jid |-> "jid", return |-> task_results]>>

\* Monitor.start, one round of its loop: the next task gets its thread
StartThread ==
    /\ monitor = "ready"
    /\ started < Len(results)
    /\ started' = started + 1
    /\ pc' = [pc EXCEPT ![started + 1] = "start"]
    /\ monitor' = IF started + 1 = Len(results) THEN "started" ELSE "ready"
    /\ UNCHANGED <<source, opts, expansion, tasknum, results, ignored, context,
                   frame, stats>>

\* Monitor.start without tasks: an error is logged
NoTasks ==
    /\ monitor = "ready"
    /\ results = <<>>
    /\ monitor' = "no_tasks"
    /\ UNCHANGED <<source, opts, expansion, tasknum, results, ignored, context,
                   started, pc, frame, stats>>

\* ------------------------------------------------------ MonitorTask.run

\* the attributes that MonitorTask.__init__ sets
Attributes == {"taskid", "code", "context", "scheduler"}

\* Where the thread is after the handler of a plan's exception, which logs
\* self.cmdid: at the sink, or ended by the handler's own AttributeError.
AfterPlanError == IF "cmdid" \in Attributes THEN "sink" ELSE "crashed"

\* where the thread is with its frame at instruction ip
At(t, ip) == IF Norm(Code(t), ip) > Len(Code(t)) THEN "sink" ELSE "exec"

\* C10, mutant: the tasks share one thread of control, so that the end of
\* one ends them all
ThreadEnds_All(pcs, t, how) ==
    [u \in DOMAIN pcs |-> IF pcs[u] = "none" THEN "none" ELSE how]

\* The threads when the thread of task t ends, by leaving run ("exit") or
\* by an exception that nothing catches ("crashed"): each task has a
\* thread of its own, and the others go on.
ThreadEnds(pcs, t, how) == [pcs EXCEPT ![t] = how]

\* the threads when the thread of task t moves on to `where`
Goto(t, where) ==
    IF where \in {"exit", "crashed"} THEN ThreadEnds(pc, t, where)
    ELSE [pc EXCEPT ![t] = where]

\* run() up to the loop: the thread reads id and returner off its context
RunStart(t) ==
    /\ pc[t] = "start"
    /\ pc' = Goto(t, At(t, 1))
    /\ frame' = [frame EXCEPT ![t] =
                    [Frame0 EXCEPT !.ip = Norm(Code(t), 1),
                                   !.returner = Cx(t).returner]]
    /\ stats' = [stats EXCEPT ![t].runs = 1]
    /\ UNCHANGED <<source, opts, expansion, tasknum, results, ignored, monitor,
                   context, started>>

\* exec self.code in self.context: one statement that is no call
Statement(t) ==
    /\ pc[t] = "exec"
    /\ LET ins == Code(t)[frame[t].ip]
           e == Effect(ins, Cx(t), frame[t], t)
       IN  /\ ins.op \notin {"primary", "call"}
           /\ IF e.raised
              THEN /\ pc' = Goto(t, AfterPlanError)
                   /\ UNCHANGED <<context, frame>>
              ELSE /\ pc' = Goto(t, At(t, e.fr.ip))
                   /\ context' = [context EXCEPT ![results[t].context] = e.cx]
                   /\ frame' = [frame EXCEPT ![t] =
                                   [e.fr EXCEPT !.ip = Norm(Code(t), e.fr.ip)]]
    /\ UNCHANGED <<source, opts, expansion, tasknum, results, ignored, monitor,
                   started, stats>>

\* _run(cmd, [args]): the arguments are evaluated and the agent's function
\* is called
Invoke(t) ==
    /\ pc[t] = "exec"
    /\ LET ins == Code(t)[frame[t].ip]
           args == EvalArgs(Cx(t), ins.args)
       IN  /\ ins.op \in {"primary", "call"}
           /\ IF Cx(t)._run = 0 \/ \E i \in 1..Len(args) : args[i] = Unbound
              THEN /\ pc' = Goto(t, AfterPlanError)
                   /\ UNCHANGED frame
              ELSE /\ pc' = Goto(t, "probe")
                   /\ frame' = [frame EXCEPT ![t].call =
                                   [cmd |-> ins.cmd, args |-> args,
                                    primary |-> ins.op = "primary"]]
    /\ UNCHANGED <<source, opts, expansion, tasknum, results, ignored, monitor,
                   context, started, stats>>

\* the [[cmd] + args, ret] that _run appends, with the thread that did
ResultEntry(call, ret, t) ==
    [cmd |-> call.cmd, args |-> call.args, ret |-> ret, by |-> t]

\* C5, mutant: every call statement assigns result, not the primary one only
RunReturn_AlwaysBinds(cx, call, ret, t) ==
    Bind([cx EXCEPT !.task_results = Append(@, ResultEntry(call, ret, t))],
         "result", ret, t)

\* _run after the agent's function has returned ret: the context it leaves
\* (the primary call's statement also assigns result)
RunReturn(cx, call, ret, t) ==
    LET logged == [cx EXCEPT !.task_results =
                        Append(@, ResultEntry(call, ret, t))]
    IN  IF call.primary THEN Bind(logged, "result", ret, t) ELSE logged

\* the agent's function returns
ProbeReturn(t) ==
    /\ pc[t] = "probe"
    /\ \E ret \in Returns(frame[t].call.cmd) :
        /\ context' = [context EXCEPT ![results[t].context] =
                          RunReturn(@, frame[t].call, ret, t)]
        /\ stats' = [stats EXCEPT ![t].invoked =
                        Append(@, ResultEntry(frame[t].call, ret, t))]
    /\ pc' = Goto(t, At(t, frame[t].ip + 1))
    /\ frame' = [frame EXCEPT ![t].ip = Norm(Code(t), @ + 1),
                              ![t].call = NoCall]
    /\ UNCHANGED <<source, opts, expansion, tasknum, results, ignored, monitor,
                   started>>

\* the agent's function raises
ProbeRaise(t) ==
    /\ pc[t] = "probe"
    /\ pc' = Goto(t, AfterPlanError)
    /\ frame' = [frame EXCEPT ![t].call = NoCall]
    /\ UNCHANGED <<source, opts, expansion, tasknum, results, ignored, monitor,
                   context, started, stats>>

\* `if returner:` with a returner: it is handed id, jid and the context's
\* task_results; what it raises is logged
CallReturner(t) ==
    /\ pc[t] = "sink"
    /\ frame[t].returner # "none"
    /\ \E raised \in BOOLEAN :
        stats' = [stats EXCEPT ![t].sunk = @ + 1,
                               ![t].handed =
                                   ReturnerArgs(Cx(t).id,
                                                Cx(t).task_results),
                               ![t].sink_raised = raised]
    /\ pc' = Goto(t, "sched")
    /\ UNCHANGED <<source, opts, expansion, tasknum, results, ignored, monitor,
                   context, started, frame>>

\* `if returner:` without one
SkipReturner(t) ==
    /\ pc[t] = "sink"
    /\ frame[t].returner = "none"
    /\ pc' = Goto(t, "sched")
    /\ UNCHANGED <<source, opts, expansion, tasknum, results, ignored, monitor,
                   context, started, frame, stats>>

\* scheduler.next(): the iterator with its next duration taken, or
\* StopIteration when it has none left (left < 0: it never ends)
SchedulerNext(scheduler) ==
    IF scheduler.left = 0 THEN Raise("StopIteration")
    ELSE Ok([scheduler EXCEPT !.left = IF @ > 0 THEN @ - 1 ELSE @])

\* C8, mutant: a task without scheduler sleeps a default interval and goes
\* round again
Schedule_DefaultSleep(t) ==
    /\ pc[t] = "sched"
    /\ LET next == SchedulerNext(results[t].scheduler) IN
       IF results[t].scheduler # NoScheduler /\ next.err # "none"
       THEN /\ pc' = Goto(t, "crashed")
            /\ UNCHANGED results
       ELSE /\ pc' = Goto(t, "sleep")
            /\ results' = IF results[t].scheduler = NoScheduler THEN results
                          ELSE [results EXCEPT ![t].scheduler = next.val]
    /\ stats' = [stats EXCEPT ![t].asked = @ + 1]
    /\ UNCHANGED <<source, opts, expansion, tasknum, ignored, monitor, context,
                   started, frame>>

\* C22, mutant: the duration is taken from the scheduler once for the log
\* line and once more for the sleep
Schedule_AsksTwice(t) ==
    /\ pc[t] = "sched"
    /\ LET scheduler == results[t].scheduler
           next == SchedulerNext(scheduler)
       IN  IF scheduler = NoScheduler
           THEN /\ pc' = Goto(t, "exit")
                /\ UNCHANGED <<results, stats>>
           ELSE IF next.err # "none"
           THEN /\ pc' = Goto(t, "crashed")
                /\ stats' = [stats EXCEPT ![t].asked = @ + 1]
                /\ UNCHANGED results
           ELSE /\ pc' = Goto(t, "sleep")
                /\ stats' = [stats EXCEPT ![t].asked = @ + 2]
                /\ results' = [results EXCEPT ![t].scheduler = next.val]
    /\ UNCHANGED <<source, opts, expansion, tasknum, ignored, monitor, context,
                   started, frame>>

\* the end of one round of the loop: without scheduler the loop is left,
\* else the next duration is taken from it
Schedule(t) ==
    /\ pc[t] = "sched"
    /\ LET scheduler == results[t].scheduler
           next == SchedulerNext(scheduler)
       IN  IF scheduler = NoScheduler
           THEN /\ pc' = Goto(t, "exit")
                /\ UNCHANGED <<results, stats>>
           ELSE IF next.err # "none"
           THEN /\ pc' = Goto(t, "crashed")
                /\ stats' = [stats EXCEPT ![t].asked = @ + 1]
                /\ UNCHANGED results
           ELSE /\ pc' = Goto(t, "sleep")
                /\ stats' = [stats EXCEPT ![t].asked = @ + 1]
                /\ results' = [results EXCEPT ![t].scheduler = next.val]
    /\ UNCHANGED <<source, opts, expansion, tasknum, ignored, monitor, context,
                   started, frame>>

\* time.sleep(duration) returns and the next round of the loop begins
Sleep(t) ==
    /\ pc[t] = "sleep"
    /\ stats[t].runs < MaxIter
    /\ pc' = Goto(t, At(t, 1))
    /\ frame' = [frame EXCEPT ![t].ip = Norm(Code(t), 1),
                              ![t].iter = <<>>]
    /\ stats' = [stats EXCEPT ![t].runs = @ + 1, ![t].slept = @ + 1,
                              ![t].invoked = <<>>]
    /\ UNCHANGED <<source, opts, expansion, tasknum, results, ignored, monitor,
                   context, started>>

\* ------------------------------------------------------ specifications

\* the configurations: nothing configured; a returner and a collector
\* that their registries hold; a returner that its registry lacks, with a
\* default interval of 5 seconds
Configs ==
    {Opts("", "", Absent),
     Opts("redis", "mongo", Absent),
     Opts("nosuch", "mongo", 5)}

\* the docstring's first example, with a condition on the value
E_disk ==
    Entry("", TRUE, Cmd("status.diskusage", <<Word(S_root)>>), 10, Absent,
          <<Foreach(<<"fs", "stats">>,
                    <<Map("if", Gt("stats", 1),
                          <<Cmd("alert.send", <<Dollar("fs")>>)>>)>>)>>)
E_ping == Entry("", TRUE, Cmd("test.ping", <<>>), Absent, Absent, <<>>)
\* two top-level control clauses
E_two ==
    Entry("two", TRUE, Cmd("status.diskusage", <<>>), Absent, 1,
          <<If(IsTrue("result"), <<Cmd("alert.send", <<Word(S_a)>>)>>),
            Foreach(<<"v">>, <<Cmd("test.ping", <<Dollar("v")>>)>>)>>)
\* a command the registry does not hold
E_unknown == Entry("", TRUE, Cmd("no.such", <<>>), Absent, Absent, <<>>)
\* no run key
E_norun == Entry("norun", FALSE, Cmd("", <<>>), Absent, Absent, <<>>)
\* an entry at a cron time, whose id is the default id of the entry after it
E_second ==
    Entry("monitor-2", TRUE, Cmd("test.ping", <<>>), Absent, 1, <<>>)
\* foreach over a mapping that passes key and value on
E_each ==
    Entry("each", TRUE, Cmd("status.diskusage", <<Word(S_root)>>),
          Absent, Absent,
          <<Foreach(<<"fs", "stats">>,
                    <<Cmd("alert.send", <<Dollar("fs"), Dollar("stats")>>)>>)>>)
E_mem ==
    Entry("each", TRUE, Cmd("status.meminfo", <<>>), Absent, Absent,
          <<Foreach(<<"fs", "stats">>,
                    <<Cmd("alert.send", <<Dollar("fs"), Dollar("stats")>>)>>)>>)

Catalogs ==
    {<<E_ping, E_disk>>, <<E_two>>, <<E_ping, E_unknown, E_ping>>,
     <<E_ping, E_norun, E_ping>>, <<E_unknown>>, <<E_second, E_ping>>}

\* the state in Monitor.__init__ with the parser constructed
Init ==
    /\ source \in Catalogs
    /\ opts \in Configs
    /\ tasknum = 0
    /\ results = <<>>
    /\ ignored = <<>>
    /\ monitor = "parsing"
    /\ context = [r \in 0..Len(source) |-> _make_context(opts)]
    /\ started = 0
    /\ pc = [t \in 1..Len(source) |-> "none"]
    /\ frame = [t \in 1..Len(source) |-> Frame0]
    /\ stats = [t \in 1..Len(source) |-> Stats0]
    /\ expansion = NoExpansion

Next ==
    \/ ExpandEntry
    \/ ParseReturn
    \/ StartThread
    \/ NoTasks
    \/ \E t \in DOMAIN pc : RunStart(t)
    \/ \E t \in DOMAIN pc : Statement(t)
    \/ \E t \in DOMAIN pc : Invoke(t)
    \/ \E t \in DOMAIN pc : ProbeReturn(t)
    \/ \E t \in DOMAIN pc : ProbeRaise(t)
    \/ \E t \in DOMAIN pc : CallReturner(t)
    \/ \E t \in DOMAIN pc : SkipReturner(t)
    \/ \E t \in DOMAIN pc : Schedule(t)
    \/ \E t \in DOMAIN pc : Sleep(t)

Spec == Init /\ [][Next]_vars

\* A MonitorTask constructed by a caller of its own, with any of the
\* plans and with or without a scheduler (the default is None), whose
\* run() is called.
IdOrder(n) == [i \in 1..n |-> i]

Plan(taskdict) ==
    compile(_expand_task("task", taskdict, IdOrder(Len(taskdict.clauses))).val).val

\* no scheduler, an iterator of durations that never ends, and one that
\* yields a single duration
Schedulers ==
    {NoScheduler,
     [kind |-> "interval", seconds |-> 3, left |-> -1],
     [kind |-> "list", seconds |-> 0, left |-> 1]}

TaskInit ==
    /\ source = <<>>
    /\ opts \in Configs
    /\ tasknum = 0
    /\ \E taskdict \in {E_ping, E_disk, E_two}, scheduler \in Schedulers :
          results = <<MonitorTask("task", Plan(taskdict), 0, scheduler)>>
    /\ ignored = <<>>
    /\ monitor = "none"
    /\ context = [r \in {0} |-> _make_context(opts)]
    /\ started = 1
    /\ pc = [t \in {1} |-> "start"]
    /\ frame = [t \in {1} |-> Frame0]
    /\ stats = [t \in {1} |-> Stats0]
    /\ expansion = NoExpansion

TaskNext ==
    \/ \E t \in DOMAIN pc : RunStart(t)
    \/ \E t \in DOMAIN pc : Statement(t)
    \/ \E t \in DOMAIN pc : Invoke(t)
    \/ \E t \in DOMAIN pc : ProbeReturn(t)
    \/ \E t \in DOMAIN pc : ProbeRaise(t)
    \/ \E t \in DOMAIN pc : CallReturner(t)
    \/ \E t \in DOMAIN pc : SkipReturner(t)
    \/ \E t \in DOMAIN pc : Schedule(t)
    \/ \E t \in DOMAIN pc : Sleep(t)

TaskSpec == TaskInit /\ [][TaskNext]_vars

\* foreach over a sequence or set that passes the element on
E_list ==
    Entry("list", TRUE, Cmd("ps.pgrep", <<>>), Absent, Absent,
          <<Foreach(<<"v">>, <<Cmd("alert.send", <<Dollar("v")>>)>>)>>)
\* the same over a sequence of mappings
E_top ==
    Entry("list", TRUE, Cmd("ps.top", <<>>), Absent, Absent,
          <<Foreach(<<"v">>, <<Cmd("alert.send", <<Dollar("v")>>)>>)>>)

\* an if/elif/else chain in a foreach body
E_chain ==
    Entry("chain", TRUE, Cmd("status.meminfo", <<>>), Absent, Absent,
          <<Foreach(<<"fs", "stats">>,
                    <<Map("if", IsADict("stats"),
                          <<Cmd("alert.send", <<Word(S_a), Dollar("fs")>>)>>),
                      Map("elif", Gt("stats", 0),
                          <<Cmd("alert.send", <<Word(S_b), Dollar("fs")>>)>>),
                      Map("else", NoCond,
                          <<Cmd("alert.send", <<Word(S_c), Dollar("fs")>>)>>)>>)>>)
\* a top-level if clause
E_if ==
    Entry("if", TRUE, Cmd("status.diskusage", <<>>), Absent, Absent,
          <<If(IsTrue("result"), <<Cmd("alert.send", <<Word(S_a)>>)>>)>>)

\* a foreach in a foreach body: `- foreach v: [alert.send $v]`
E_nested_foreach ==
    Entry("nested", TRUE, Cmd("status.meminfo", <<>>), Absent, Absent,
          <<Foreach(<<"fs", "stats">>,
                    <<Map("foreach", NoCond,
                          <<Cmd("alert.send", <<Dollar("v")>>)>>)>>)>>)
\* an if in the body of a top-level if
E_nested_if ==
    Entry("nested", TRUE, Cmd("status.diskusage", <<>>), Absent, Absent,
          <<If(IsTrue("result"),
               <<Map("if", IsADict("result"),
                     <<Cmd("alert.send", <<Word(S_a)>>)>>)>>)>>)

\* the strings "on ", "'{", "}" and "\$"
S_on == <<111, 110, 32>>
S_open == <<39, 123>>
S_close == <<125>>
S_escaped == <<92, 36>>

\* one quoted argument of text and references:
\* alert.send "on $fs'{$stats}\$"
E_quoted ==
    Entry("quoted", TRUE, Cmd("status.diskusage", <<Word(S_root)>>),
          Absent, Absent,
          <<Foreach(<<"fs", "stats">>,
                    <<Cmd("alert.send",
                          <<Quoted(<<Text(S_on), Var("fs"), Text(S_open),
                                     Var("stats"), Text(S_close),
                                     Text(S_escaped)>>)>>)>>)>>)
\* each of two references bare and in quotes:
\* alert.send $fs '$fs' $stats '$stats'
E_dollar ==
    Entry("dollar", TRUE, Cmd("status.meminfo", <<>>), Absent, Absent,
          <<Foreach(<<"fs", "stats">>,
                    <<Cmd("alert.send",
                          <<Dollar("fs"), Quoted(<<Var("fs")>>),
                            Dollar("stats"), Quoted(<<Var("stats")>>)>>)>>)>>)

\* A daemon whose catalog has a single entry: one task, alone in the
\* parser's context.
SoloCatalogs ==
    {<<E_each>>, <<E_mem>>, <<E_list>>, <<E_top>>, <<E_chain>>, <<E_if>>,
     <<E_nested_foreach>>, <<E_nested_if>>, <<E_quoted>>, <<E_dollar>>,
     <<E_unknown>>}

SoloInit ==
    /\ source \in SoloCatalogs
    /\ opts \in Configs
    /\ tasknum = 0
    /\ results = <<>>
    /\ ignored = <<>>
    /\ monitor = "parsing"
    /\ context = [r \in 0..Len(source) |-> _make_context(opts)]
    /\ started = 0
    /\ pc = [t \in 1..Len(source) |-> "none"]
    /\ frame = [t \in 1..Len(source) |-> Frame0]
    /\ stats = [t \in 1..Len(source) |-> Stats0]
    /\ expansion = NoExpansion

SoloSpec == SoloInit /\ [][Next]_vars

\* ---------------------------------- _expand_references on a text of its own

\* the longest text drawn
MaxLen == 4

\* the characters of an identifier
IsIdentStart(c) == c \in (65..90) \cup (97..122) \cup {95}
IsWordChar(c) == IsIdentStart(c) \/ c \in 48..57

\* the number of word characters at the head of s
RECURSIVE WordLen(_)
WordLen(s) ==
    IF s = <<>> \/ ~IsWordChar(Head(s)) THEN 0 ELSE 1 + WordLen(Tail(s))

\* the place of the first c in s, 0 when s has none
RECURSIVE Find(_, _)
Find(s, c) ==
    IF s = <<>> THEN 0
    ELSE IF Head(s) = c THEN 1
    ELSE IF Find(Tail(s), c) = 0 THEN 0
    ELSE 1 + Find(Tail(s), c)

\* the length of what TOKEN_PATTERN matches at the head of s, 0 when it
\* matches nothing there: \\, \$, a brace, $name, ${...}
MatchLen(s) ==
    IF Len(s) >= 2 /\ s[1] = Chr.backslash /\ s[2] = Chr.backslash THEN 2
    ELSE IF Len(s) >= 2 /\ s[1] = Chr.backslash /\ s[2] = Chr.dollar THEN 2
    ELSE IF Len(s) >= 1 /\ s[1] \in {Chr.lbrace, Chr.rbrace} THEN 1
    ELSE IF Len(s) >= 2 /\ s[1] = Chr.dollar /\ IsIdentStart(s[2])
    THEN 1 + WordLen(Tail(s))
    ELSE IF Len(s) >= 4 /\ s[1] = Chr.dollar /\ s[2] = Chr.lbrace
            /\ s[3] # Chr.rbrace
            /\ Find(SubSeq(s, 3, Len(s)), Chr.rbrace) > 0
    THEN 2 + Find(SubSeq(s, 3, Len(s)), Chr.rbrace)
    ELSE 0

\* TOKEN_PATTERN.split(text): the stretches between the matches and the
\* matches themselves, in order; `before` is the stretch gone through
RECURSIVE TOKEN_PATTERN_split(_, _)
TOKEN_PATTERN_split(text, before) ==
    IF text = <<>> THEN <<before>>
    ELSE IF MatchLen(text) > 0
    THEN <<before, SubSeq(text, 1, MatchLen(text))>>
            \o TOKEN_PATTERN_split(SubSeq(text, MatchLen(text) + 1, Len(text)),
                                   <<>>)
    ELSE TOKEN_PATTERN_split(Tail(text), Append(before, Head(text)))

\* how the names of the context are spelled
Spelling ==
    [result |-> <<114, 101, 115, 117, 108, 116>>, fs |-> <<102, 115>>,
     stats |-> <<115, 116, 97, 116, 115>>, v |-> <<118>>]

\* the name that a reference spells; an expression that is none of the
\* context's names is "undefined", and one with a format spec "formatted"
Name(ref) ==
    IF 58 \in Range(ref) THEN "formatted"
    ELSE IF \E n \in Names : Spelling[n] = ref
    THEN CHOOSE n \in Names : Spelling[n] = ref
    ELSE "undefined"

\* the pieces that the loop over the split tells apart: nothing for an
\* empty stretch, a reference ${...} or $..., or plain text
RECURSIVE Pieces(_)
Pieces(split) ==
    IF split = <<>> THEN <<>>
    ELSE LET matched == Head(split) IN
         (IF Len(matched) = 0 THEN <<>>
          ELSE IF Len(matched) > 1 /\ matched[1] = Chr.dollar
          THEN IF matched[2] = Chr.lbrace /\ matched[Len(matched)] = Chr.rbrace
               THEN <<Var(Name(SubSeq(matched, 3, Len(matched) - 1)))>>
               ELSE <<Var(Name(Tail(matched)))>>
          ELSE <<Text(matched)>>)
            \o Pieces(Tail(split))

\* C21, mutant: a text that begins with a quote and ends with any quote
\* counts as quoted
IsQuoted_AnyPair(text) ==
    /\ Len(text) > 1
    /\ text[1] \in {Chr.quote, Chr.dquote}
    /\ text[Len(text)] \in {Chr.quote, Chr.dquote}

\* whether the text is enclosed in a pair of the same quote
IsQuoted(text) ==
    /\ Len(text) > 1
    /\ text[1] \in {Chr.quote, Chr.dquote}
    /\ text[1] = text[Len(text)]

\* the head of _expand_references: the text without the quotes that
\* enclose it, taken apart by TOKEN_PATTERN
Lex(text) ==
    IF IsQuoted(text)
    THEN Token(TRUE, Pieces(TOKEN_PATTERN_split(
                                SubSeq(text, 2, Len(text) - 1), <<>>)))
    ELSE Token(FALSE, Pieces(TOKEN_PATTERN_split(text, <<>>)))

\* the characters of the texts drawn: a letter, the backslash, the two
\* quotes, the dollar sign, the braces and the character \1
Alphabet ==
    {118, Chr.backslash, Chr.quote, Chr.dquote, Chr.dollar, Chr.lbrace,
     Chr.rbrace, Chr.soh}

Texts == UNION {[1..n -> Alphabet] : n \in 0..MaxLen}

\* a caller of its own is about to call _expand_references with any text,
\* as a string or as an expression
ExpandInit ==
    /\ source = <<>>
    /\ opts \in Configs
    /\ tasknum = 0
    /\ results = <<>>
    /\ ignored = <<>>
    /\ monitor = "none"
    /\ context = [r \in {0} |-> _make_context(opts)]
    /\ started = 0
    /\ pc = <<>>
    /\ frame = <<>>
    /\ stats = <<>>
    /\ \E text \in Texts, expand_to_string \in BOOLEAN :
          expansion = [text |-> text, expand_to_string |-> expand_to_string,
                       done |-> FALSE, result |-> <<>>]

\* the call returns
ExpandReferences ==
    /\ ~expansion.done
    /\ expansion' =
          [expansion EXCEPT
              !.done = TRUE,
              !.result = _expand_references(Lex(expansion.text),
                                            expansion.expand_to_string)]
    /\ UNCHANGED <<source, opts, tasknum, results, ignored, monitor,
                   context, started, pc, frame, stats>>

ExpandSpec == ExpandInit /\ [][ExpandReferences]_vars

\* ------------------------------------------------------------ properties

Threads == DOMAIN pc
Ended == {"exit", "crashed"}
HasScheduler(t) == t <= Len(results) /\ results[t].scheduler # NoScheduler

\* the thread is executing its plan past `def _run` and `task_results = []`
InPlan(t) == pc[t] \in {"exec", "probe"} /\ frame[t].ip > 2

\* the thread's step completes an invocation of an agent function
Returned(t) == Len(stats'[t].invoked) = Len(stats[t].invoked) + 1

\* C1: for a task with a scheduler, an exception raised while the plan
\* executes is caught and does not end the task: from executing its plan
\* the thread only goes on in the plan or on to the sink step of the same
\* round of the loop.
C1_PlanErrorCaught ==
    [][\A t \in Threads :
          (pc[t] \in {"exec", "probe"} /\ HasScheduler(t))
              => pc'[t] \in {"exec", "probe", "sink"}]_vars

\* C2: while a task is between the reset of its log and the hand-over to
\* its sink, the bindings its plan uses were written by no other task: _run
\* is the helper it defined, task_results is the list it bound and holds
\* only entries it appended, and no variable was bound by another task.
C2_ContextIsolated ==
    \A t \in Threads :
        (InPlan(t) \/ pc[t] = "sink") =>
            /\ Cx(t)._run = t
            /\ Cx(t).writer["task_results"] = t
            /\ \A i \in 1..Len(Cx(t).task_results) :
                   Cx(t).task_results[i].by = t
            /\ \A n \in Names : Cx(t).writer[n] \in {0, t}

\* C3: when parse has ended, every entry of the catalog was compiled to
\* one task or logged and dropped, and the tasks are returned.
C3_CompiledPlusSkipped ==
    monitor \notin {"parsing", "none"} =>
        /\ monitor # "failed"
        /\ Len(results) + Len(ignored) = Len(source)

\* C4: in every iteration of every task, task_results is empty when the
\* primary probe is invoked.
C4_EmptyAtPrimary ==
    [][\A t \in Threads :
          (pc[t] = "exec" /\ pc'[t] = "probe" /\ frame'[t].call.primary)
              => Cx(t).task_results = <<>>]_vars

\* what a completed invocation of thread t leaves in its context: one more
\* entry [[cmd, args...], ret] at the end of task_results
AppendsOneEntry(t) ==
    LET before == Cx(t).task_results
        after == context'[results[t].context].task_results
        last == after[Len(after)]
    IN  /\ Len(after) = Len(before) + 1
        /\ SubSeq(after, 1, Len(before)) = before
        /\ last.cmd = frame[t].call.cmd
        /\ last.args = frame[t].call.args
        /\ last.ret \in Returns(last.cmd)
        /\ last = stats'[t].invoked[Len(stats'[t].invoked)]

LastReturn(t) == stats'[t].invoked[Len(stats'[t].invoked)].ret

\* C5 as stated: every invocation, the primary probe's and a clause body's
\* alike, appends exactly one entry to task_results and sets result to the
\* value returned.
C5_EveryProbeSetsResult ==
    [][\A t \in Threads :
          (pc[t] = "probe" /\ Returned(t)) =>
              /\ AppendsOneEntry(t)
              /\ context'[results[t].context].vars["result"] = LastReturn(t)
      ]_vars

\* C5 as amended: every invocation appends exactly one entry
\* [[cmd, args...], ret] to task_results; the primary probe's return value
\* is assigned to result, and an invocation in a foreach or if body leaves
\* result as it was.
C5_PrimarySetsResult ==
    [][\A t \in Threads :
          (pc[t] = "probe" /\ Returned(t)) =>
              /\ AppendsOneEntry(t)
              /\ context'[results[t].context].vars["result"] =
                    IF frame[t].call.primary THEN LastReturn(t)
                    ELSE Cx(t).vars["result"]
      ]_vars

\* C5, witness: an invocation in a clause body has completed and result
\* is still the primary probe's return value, not the body probe's
C5_BodyProbeDone ==
    \E t \in Threads :
        /\ Len(stats[t].invoked) = 2
        /\ Cx(t).task_results = stats[t].invoked
        /\ Cx(t).vars["result"].v = stats[t].invoked[1].ret.v
        /\ Cx(t).vars["result"].v # stats[t].invoked[2].ret.v

\* the entries of the catalog that were compiled, in order
CompiledEntries ==
    SelectSeq([i \in 1..tasknum |-> i],
              LAMBDA i : \A j \in 1..Len(ignored) : ignored[j] # i)

\* C6: the plan of every task runs the primary probe and then the entry's
\* control clauses in the order in which the entry declares them, and when
\* the plan is through task_results holds the task's invocations in the
\* order in which it made them.
C6_DeclarationOrder ==
    /\ \A i \in 1..Len(results) :
          LET taskdict == source[CompiledEntries[i]] IN
          results[i].code =
              compile(_expand_task(results[i].taskid, taskdict,
                                   IdOrder(Len(taskdict.clauses))).val).val
    /\ \A t \in Threads :
          pc[t] = "sink" => Cx(t).task_results = stats[t].invoked

\* C7: in every iteration of a task that has a sink, the sink is called
\* exactly once, after the plan and before the scheduler step: when the
\* thread is past the sink step of a round, or has ended, it has called the
\* sink once for every round it began.
C7_SinkOncePerIteration ==
    \A t \in Threads :
        (frame[t].returner # "none"
            /\ pc[t] \in {"sched", "sleep", "exit", "crashed"})
                => stats[t].sunk = stats[t].runs

\* every step the thread of task t can take
Run(t) ==
    \/ RunStart(t) \/ Statement(t) \/ Invoke(t) \/ ProbeReturn(t)
    \/ ProbeRaise(t) \/ CallReturner(t) \/ SkipReturner(t) \/ Schedule(t)
    \/ Sleep(t)

\* C8: a task without scheduler executes its plan once, calls its sink at
\* most once and never sleeps; until its thread has ended it can always
\* take a step, and when it has ended the plan was executed exactly once,
\* whether or not that execution raised.
C8_NoSchedulerRunsOnce ==
    \A t \in Threads :
        (t <= Len(results) /\ results[t].scheduler = NoScheduler) =>
            /\ stats[t].runs <= 1
            /\ stats[t].sunk <= 1
            /\ stats[t].slept = 0
            /\ pc[t] # "sleep"
            /\ pc[t] \in Ended => stats[t].runs = 1
            /\ pc[t] \notin Ended => ENABLED Run(t)

\* C8, witness: a task without scheduler has left its loop after one plan
\* execution and one sink call
C8_ExitedAfterOne ==
    \E t \in Threads :
        /\ results[t].scheduler = NoScheduler
        /\ pc[t] = "exit"
        /\ stats[t].runs = 1
        /\ stats[t].sunk = 1

\* C9: a task with a scheduler loops forever, whatever its probes and its
\* sink returned or raised: its thread never ends.
C9_LoopsForever ==
    \A t \in Threads : HasScheduler(t) => pc[t] \notin Ended

\* C10: the end of one task's thread leaves every other task as it is.
\* Monitor.start has given every compiled task a thread; the step that ends
\* a thread changes no other thread's place, frame, scheduler or record and
\* nothing in the context; and a thread that has not ended can always take
\* a step, whatever has become of the others.
C10_TerminationIsLocal ==
    /\ [](monitor = "started" =>
            \A t \in 1..Len(results) : pc[t] # "none")
    /\ [][\A t \in Threads :
            (pc[t] \notin Ended /\ pc'[t] \in Ended) =>
                /\ context' = context
                /\ \A u \in (1..Len(results)) \ {t} :
                      /\ pc'[u] = pc[u]
                      /\ frame'[u] = frame[u]
                      /\ stats'[u] = stats[u]
                      /\ results'[u] = results[u]]_vars
    /\ [](\A u \in Threads :
            (pc[u] \in {"start", "exec", "probe", "sink", "sched"}
                \/ (pc[u] = "sleep" /\ stats[u].runs < MaxIter))
                    => ENABLED Run(u))

\* C10, witness: the thread of one task has ended in its first round and
\* another task is in a later round of its loop
C10_OtherGoesOn ==
    \E t, u \in Threads :
        /\ t # u
        /\ pc[t] = "crashed"
        /\ stats[t].runs = 1
        /\ pc[u] = "probe"
        /\ stats[u].runs = 2

\* the plan of task t has run through in the current round of its loop
Completed(t) ==
    /\ pc[t] \in {"sink", "sched", "sleep", "exit"}
    /\ frame[t].ip > Len(Code(t))

\* a value without the AttrDict that foreach wraps a mapping in
Unwrapped(x) == IF x.t = "attrdict" THEN PyDict(x.v) ELSE x

\* the task of an entry `run: <cmd>` with the one clause
\* `foreach fs, stats: [alert.send $fs $stats]`, once its primary probe
\* has returned
EachTask(t) ==
    /\ t <= Len(results)
    /\ results[t].taskid = "each"
    /\ stats[t].invoked # <<>>

\* C11: under `foreach k, v:` over a primary result that is a mapping, the
\* body runs with k and v bound to the key and value of an entry of the
\* mapping, in strictly ascending order of the keys, and once for every
\* entry when the plan has run through; over a result that is no mapping
\* no statement of the body runs and the plan does not run through.
C11_ForeachMapping ==
    \A t \in Threads :
        EachTask(t) =>
            LET ret == stats[t].invoked[1].ret
                body == Tail(stats[t].invoked)
            IN  IF IsDict(ret)
                THEN /\ \A i \in DOMAIN body :
                          /\ body[i].cmd = "alert.send"
                          /\ <<body[i].args[1], Unwrapped(body[i].args[2])>>
                                \in Range(ret.v)
                     /\ \A i, j \in DOMAIN body :
                          i < j => PyLess(body[i].args[1], body[j].args[1])
                     /\ Completed(t) => Len(body) = Len(ret.v)
                ELSE /\ body = <<>>
                     /\ ~Completed(t)

\* C11, witness: the plan has run through over a mapping of three entries,
\* the last of them, a mapping itself, passed on as an AttrDict
C11_EachEntryDone ==
    \E t \in Threads :
        /\ EachTask(t)
        /\ Completed(t)
        /\ Len(stats[t].invoked) = 4
        /\ stats[t].invoked[4].args[2].t = "attrdict"

\* the task of an entry `run: <cmd>` with the one clause
\* `foreach v: [alert.send $v]`, once its primary probe has returned
ListTask(t) ==
    /\ t <= Len(results)
    /\ results[t].taskid = "list"
    /\ stats[t].invoked # <<>>

\* the thread of task t was ended by an exception of the plan that no
\* probe raised
PlanFailed(t) ==
    /\ pc[t] = "crashed"
    /\ frame[t].ip <= Len(Code(t))
    /\ Code(t)[frame[t].ip].op \notin {"primary", "call"}

\* C12: under `foreach v:` over a primary result that is a sequence or a
\* set, the body runs once per element with v bound to it: the i-th run
\* has the i-th element of a sequence, the runs over a set are in strictly
\* ascending order of its elements, the plan itself raises nothing, and
\* when it has run through the body ran once for every element.
C12_ForeachSequence ==
    \A t \in Threads :
        (ListTask(t) /\ stats[t].invoked[1].ret.t \in {"list", "set"}) =>
            LET ret == stats[t].invoked[1].ret
                body == Tail(stats[t].invoked)
            IN  /\ Len(body) <= Len(ret.v)
                /\ \A i \in DOMAIN body :
                      /\ body[i].cmd = "alert.send"
                      /\ Len(body[i].args) = 1
                      /\ IF ret.t = "list"
                         THEN Unwrapped(body[i].args[1]) = ret.v[i]
                         ELSE body[i].args[1] \in Range(ret.v)
                /\ ret.t = "set" =>
                      \A i, j \in DOMAIN body :
                          i < j => PyLess(body[i].args[1], body[j].args[1])
                /\ ~PlanFailed(t)
                /\ Completed(t) => Len(body) = Len(ret.v)

\* the value that mapping d holds for key k
Value(d, k) == (CHOOSE e \in Range(d.v) : e[1] = k)[2]

\* the branch of `if isinstance(stats, dict)` / `elif stats > 0` / `else`
\* that is due for value x, by the argument its statement passes
Branch(x) ==
    IF x.t = "dict" THEN S_a
    ELSE IF x.t = "int" /\ x.v[1] > 0 THEN S_b
    ELSE S_c

\* C13: the statements of an if clause run once when the clause is reached
\* with its condition true and not at all when it is false, and of an
\* if/elif/else chain in a foreach body exactly one branch runs in every
\* round, the first whose condition is true or else the else branch.  The
\* chain's task makes, for each key in turn, the one invocation of the
\* branch that is due for the key's value; the task with the top-level
\* `if result:` makes its invocation if and only if result is true.
C13_ExactlyOneBranch ==
    \A t \in Threads :
        (t <= Len(results) /\ stats[t].invoked # <<>>) =>
            LET ret == stats[t].invoked[1].ret
                body == Tail(stats[t].invoked)
            IN  /\ results[t].taskid = "chain" =>
                    /\ \A i \in DOMAIN body :
                          /\ Len(body[i].args) = 2
                          /\ \E e \in Range(ret.v) : e[1] = body[i].args[2]
                          /\ body[i].args[1] =
                                PyStr(Branch(Value(ret, body[i].args[2])))
                    /\ \A i, j \in DOMAIN body :
                          i < j => PyLess(body[i].args[2], body[j].args[2])
                    /\ Completed(t) => Len(body) = Len(ret.v)
                /\ results[t].taskid = "if" =>
                    /\ Len(body) <= (IF Truthy(ret) THEN 1 ELSE 0)
                    /\ Completed(t) =>
                          Len(body) = (IF Truthy(ret) THEN 1 ELSE 0)

\* C13, witness: the chain has run through three rounds, one by each of its
\* branches
C13_EachBranchTaken ==
    \E t \in Threads :
        /\ t <= Len(results)
        /\ results[t].taskid = "chain"
        /\ Completed(t)
        /\ Len(stats[t].invoked) = 4
        /\ {stats[t].invoked[i].args[1] : i \in 2..4} =
              {PyStr(S_a), PyStr(S_b), PyStr(S_c)}

\* C14: an entry with a control clause nested in a clause's statement
\* list, a foreach in a foreach body or an if in an if body, compiles to a
\* task: parse does not fail on it and does not drop it; and the task's
\* plan runs the nested statements, so that it has invoked one when it has
\* run through over a result that makes the clauses' conditions true.
C14_NestedCompiles ==
    /\ \A i \in 1..tasknum :
          source[i].id = "nested" =>
              /\ monitor # "failed"
              /\ \A j \in DOMAIN ignored : ignored[j] # i
    /\ \A t \in Threads :
          (t <= Len(results) /\ results[t].taskid = "nested"
              /\ Completed(t) /\ IsDict(stats[t].invoked[1].ret))
                  => Len(stats[t].invoked) >= 2

\* C15: whenever a task's sink has been called it was called with three
\* arguments, the parameters of the mongo collector (hostname, cmd,
\* result), the first of them the host id.
C15_CollectorShape ==
    \A t \in Threads :
        stats[t].sunk > 0 =>
            /\ Len(stats[t].handed) = 3
            /\ stats[t].handed[1] = Cx(t).id

\* the sink that the configuration names in the collector registry
ConfiguredCollector ==
    IF opts.collector # "" THEN Get(collectors, "collectors", opts.collector)
    ELSE "none"

\* C16: the sink of every context, and the one every running task has read
\* off its context, is the entry of the collector registry that the key
\* monitor.collector names, and none without the key or the entry.
C16_CollectorResolved ==
    /\ \A r \in DOMAIN context : context[r].returner = ConfiguredCollector
    /\ \A t \in Threads :
          pc[t] \notin {"none", "start"} =>
              frame[t].returner = ConfiguredCollector

\* C17: the scheduler of every compiled task, at parse and after any
\* number of rounds, is the one its entry asks for: without `every` and
\* `at` an interval scheduler of the default interval, 10 seconds unless
\* the configuration sets monitor.default_interval; with `every` an
\* interval scheduler of that mapping; with `at` alone a cron scheduler of
\* that mapping.
C17_SchedulerOfEntry ==
    \A i \in DOMAIN results :
        LET taskdict == source[CompiledEntries[i]]
            scheduler == results[i].scheduler
        IN  IF taskdict.every # Absent
            THEN /\ scheduler.kind = "interval"
                 /\ scheduler.seconds = taskdict.every
            ELSE IF taskdict.at # Absent
            THEN /\ scheduler.kind = "cron"
                 /\ scheduler.seconds = taskdict.at
            ELSE /\ scheduler.kind = "interval"
                 /\ scheduler.seconds =
                        IF opts.default_interval = Absent THEN 10
                        ELSE opts.default_interval

\* C17, witness: a task of an entry without timing keys, under a
\* configuration without default interval, has taken a duration from its
\* scheduler and begun a second round, and a task of an entry with `at`
\* alone has been compiled
C17_DefaultIntervalSlept ==
    /\ opts.default_interval = Absent
    /\ \E i \in DOMAIN results :
          /\ source[CompiledEntries[i]].every = Absent
          /\ source[CompiledEntries[i]].at = Absent
          /\ results[i].scheduler.seconds = 10
          /\ stats[i].runs = 2
    /\ \E i \in DOMAIN results :
          /\ source[CompiledEntries[i]].every = Absent
          /\ source[CompiledEntries[i]].at # Absent

\* C18: an entry without id is compiled to a task with the id monitor-<N>,
\* N its position in the catalog counting from 1, dropped entries
\* included; and no two tasks that parse has compiled have the same id.
C18_UniqueIds ==
    /\ \A i \in DOMAIN results :
          source[CompiledEntries[i]].id = "" =>
              results[i].taskid = "monitor-" \o ToString(CompiledEntries[i])
    /\ \A i, j \in DOMAIN results :
          i # j => results[i].taskid # results[j].taskid

\* C19: a quoted token of text and references reaches the function as one
\* string, the text with every reference replaced by the str of what the
\* name is bound to at that invocation.  In `foreach fs, stats:` over a
\* mapping, "on $fs'{$stats}\$" is received, for each entry in turn, as
\* on <key>'{<value>}$.
C19_QuotedArgument ==
    \A t \in Threads :
        (t <= Len(results) /\ results[t].taskid = "quoted"
            /\ stats[t].invoked # <<>>) =>
            LET ret == stats[t].invoked[1].ret
                items == Sorted(ret.v)
                body == Tail(stats[t].invoked)
            IN  \A i \in DOMAIN body :
                    /\ Len(body[i].args) = 1
                    /\ body[i].args[1] =
                          PyStr(<<111, 110, 32>> \o Str(items[i][1])
                                \o <<39, 123>> \o Str(items[i][2])
                                \o <<125, 36>>)

\* C19, witness: the plan has run through over a mapping of two entries and
\* the second invocation has received on b'{2}$
C19_SecondEntryReceived ==
    \E t \in Threads :
        /\ t <= Len(results)
        /\ results[t].taskid = "quoted"
        /\ Completed(t)
        /\ Len(stats[t].invoked) = 3
        /\ stats[t].invoked[3].args[1] =
              PyStr(<<111, 110, 32, 98, 39, 123, 50, 125, 36>>)

\* the task of the entry with `alert.send $fs '$fs' $stats '$stats'`
DollarTask(t) ==
    /\ t <= Len(results)
    /\ results[t].taskid = "dollar"
    /\ stats[t].invoked # <<>>

\* C20 as stated: the argument that a reference $v makes, in quotes or
\* without, is str(x) for the value x that v is bound to.
C20_AlwaysStr ==
    \A t \in Threads :
        DollarTask(t) =>
            LET items == Sorted(stats[t].invoked[1].ret.v)
                body == Tail(stats[t].invoked)
            IN  \A i \in DOMAIN body :
                    body[i].args =
                        <<PyStr(Str(items[i][1])), PyStr(Str(items[i][1])),
                          PyStr(Str(items[i][2])), PyStr(Str(items[i][2]))>>

\* C20 as amended: the argument that a reference $v makes is str(x) when
\* the reference is in quotes, and without quotes the value x itself, not
\* converted (a mapping as the AttrDict that foreach has made of it).
C20_StrWhenQuoted ==
    \A t \in Threads :
        DollarTask(t) =>
            LET items == Sorted(stats[t].invoked[1].ret.v)
                body == Tail(stats[t].invoked)
            IN  \A i \in DOMAIN body :
                    /\ Len(body[i].args) = 4
                    /\ body[i].args[1] = items[i][1]
                    /\ body[i].args[2] = PyStr(Str(items[i][1]))
                    /\ Unwrapped(body[i].args[3]) = items[i][2]
                    /\ body[i].args[4] = PyStr(Str(items[i][2]))

\* C20, witness: the plan has run through; a number was passed as a number
\* for $stats and as its digits for '$stats', and a mapping as a mapping
\* and as its repr {'a': 1}
C20_RawAndString ==
    \E t \in Threads :
        /\ DollarTask(t)
        /\ Completed(t)
        /\ Len(stats[t].invoked) = 4
        /\ stats[t].invoked[3].args[3] = PyInt(1)
        /\ stats[t].invoked[3].args[4] = PyStr(<<49>>)
        /\ IsDict(stats[t].invoked[4].args[3])
        /\ stats[t].invoked[4].args[4] =
              PyStr(<<123, 39, 97, 39, 58, 32, 49, 125>>)

\* the text has no dollar sign and no brace
NoReferences(text) ==
    Range(text) \cap {Chr.dollar, Chr.lbrace, Chr.rbrace} = {}

\* the text has no backslash right after a backslash
NoEscapedBackslash(text) ==
    \A i \in 1..(Len(text) - 1) :
        ~(text[i] = Chr.backslash /\ text[i + 1] = Chr.backslash)

\* the text has none of the characters \1 and \2, which the expander puts
\* in the place of braces
NoPlaceholders(text) == Range(text) \cap {Chr.soh, Chr.stx} = {}

\* the text begins and ends with the same quote character
InQuotes(text) ==
    \E q \in {Chr.quote, Chr.dquote} :
        Len(text) >= 2 /\ text[1] = q /\ text[Len(text)] = q

\* the result of the call is the text X: as a string, a string literal
\* that denotes X; as an expression, the source text X
ExpandsTo(text) ==
    IF expansion.expand_to_string
    THEN expansion.result.k = "lit"
            /\ StringLiteral(expansion.result.s) = text
    ELSE expansion.result.k \in {"source", "lit"}
            /\ expansion.result.s = text

\* C21 as stated: for any text X with no $ and no braces, with or without
\* backslashes and enclosing quotes, _expand_references returns X verbatim:
\* the string it denotes as a string, the same text as an expression.
C21_Verbatim ==
    (expansion.done /\ NoReferences(expansion.text))
        => ExpandsTo(expansion.text)

\* C21 as amended: for any text X with no $, no braces, no backslash
\* right after a backslash and none of the characters \1 and \2 that is
\* not enclosed in a pair of the same quote, _expand_references returns X
\* verbatim: a literal that denotes X as a string, the source text X as an
\* expression.
C21_VerbatimUnlessEscaped ==
    (/\ expansion.done
     /\ NoReferences(expansion.text)
     /\ NoEscapedBackslash(expansion.text)
     /\ NoPlaceholders(expansion.text)
     /\ ~InQuotes(expansion.text))
        => /\ ExpandsTo(expansion.text)
           /\ ~expansion.expand_to_string => expansion.result.k = "source"

\* C21, witness: the call has returned the string for a text with a
\* backslash, a single and a double quote
C21_BackslashAndQuotes ==
    /\ expansion.done
    /\ expansion.expand_to_string
    /\ expansion.text = <<Chr.quote, Chr.backslash, 118, Chr.dquote>>
    /\ expansion.result.k = "lit"

\* the thread of task t calls a sink in every round of its loop
HasSink(t) == frame[t].returner # "none"

\* C22: the rounds of one task's loop follow one another strictly.  While
\* round n executes its plan or is at its sink, the scheduler has been
\* asked for n - 1 durations and the thread has slept n - 1 times; the
\* n-th duration is asked for after the n-th plan execution and sink call,
\* once, and slept before round n + 1 begins.
C22_StrictIterations ==
    \A t \in Threads :
        LET n == stats[t].runs IN
        /\ pc[t] \in {"none", "start"} =>
              n = 0 /\ stats[t].asked = 0 /\ stats[t].slept = 0
        /\ pc[t] \in {"exec", "probe", "sink"} =>
              /\ n >= 1
              /\ stats[t].asked = n - 1
              /\ stats[t].slept = n - 1
              /\ HasSink(t) => stats[t].sunk = n - 1
        /\ pc[t] = "sched" =>
              /\ stats[t].asked = n - 1
              /\ stats[t].slept = n - 1
              /\ HasSink(t) => stats[t].sunk = n
        /\ pc[t] = "sleep" =>
              /\ stats[t].asked = n
              /\ stats[t].slept = n - 1
              /\ HasSink(t) => stats[t].sunk = n
        /\ pc[t] \in Ended =>
              /\ stats[t].asked \in {n - 1, n}
              /\ stats[t].slept = n - 1

\* C22, witness: a thread with a sink has gone through its second round
\* and has asked for the second duration, after one sleep
C22_SecondRoundScheduled ==
    \E t \in Threads :
        /\ pc[t] = "sleep"
        /\ HasSink(t)
        /\ stats[t].runs = 2
        /\ stats[t].sunk = 2
        /\ stats[t].asked = 2
        /\ stats[t].slept = 1

\* the statement that the thread of task t is at raises: a call without
\* _run or with an unbound name among its arguments, or a statement whose
\* effect is an exception
Raises(t) ==
    LET ins == Code(t)[frame[t].ip] IN
    IF ins.op \in {"primary", "call"}
    THEN Cx(t)._run = 0
            \/ \E i \in 1..Len(ins.args) : EvalArg(Cx(t), ins.args[i]) = Unbound
    ELSE Effect(ins, Cx(t), frame[t], t).raised

\* a step in which the plan of task t raises: at a statement that raises,
\* or in the agent's function, which then completes no invocation
PlanRaisesStep(t) ==
    \/ pc[t] = "exec" /\ Raises(t) /\ pc'[t] # "exec"
    \/ pc[t] = "probe" /\ pc'[t] # "probe"
          /\ stats'[t].invoked = stats[t].invoked

\* C23: when the plan raises part-way through a round and a sink is bound,
\* the thread goes on to call the sink for that round, with task_results
\* holding exactly the entries of the invocations completed before the
\* failure, in order.
C23_SinkAfterPlanError ==
    [][\A t \in Threads :
          (pc[t] \in {"exec", "probe"} /\ HasSink(t) /\ PlanRaisesStep(t))
              => /\ pc'[t] = "sink"
                 /\ context'[results[t].context].task_results
                        = stats'[t].invoked]_vars

====
